---- MODULE Spec2Model ----
(***************************************************************************)
(* The CommonMark fixture synchronisation script, update.py: main() wipes  *)
(* the fixture artifacts of the script's directory, fetches spec.json,     *)
(* decodes it and writes one <number>-<section>.md file per example.       *)
(* The repository holds two copies of the script (tests/commonmark-spec    *)
(* and pulldown-cmark-tty/tests/render/md/commonmark-spec) whose main() is *)
(* the same; line numbers are those of tests/commonmark-spec/update.py.    *)
(*                                                                         *)
(* File names are sequences of one-character strings; text (markdown) is a *)
(* sequence of Unicode code points and file data a sequence of bytes.      *)
(***************************************************************************)
EXTENDS Integers, Sequences, FiniteSets, TLC

(* ---------------------------------------------------------------- bounds *)

\* Longest document (number of example records) served at SPEC_URL.
MaxExamples == 3

\* Number of times main() is invoked in succession.
MaxRuns == 2

(* ------------------------------------------------------ strings and text *)

\* '{number:0>3}': the width of the format specification.
PadWidth == 3

DigitChars == <<"0", "1", "2", "3", "4", "5", "6", "7", "8", "9">>

\* str(number) for a non-negative int: its decimal digits, most significant first.
RECURSIVE Str(_)
Str(n) ==
    IF n < 10 THEN <<DigitChars[n + 1]>>
    ELSE Str(n \div 10) \o <<DigitChars[(n % 10) + 1]>>

\* Fill on the left with `fill` up to `width`; a longer string is returned whole.
RECURSIVE RJust(_, _, _)
RJust(s, width, fill) ==
    IF Len(s) >= width THEN s ELSE RJust(<<fill>> \o s, width, fill)

\* format(number, '0>3'): fill '0', align '>', width 3.
FormatNumberTruncating(number) ==
    LET s == RJust(Str(number), PadWidth, "0")
    IN SubSeq(s, Len(s) - PadWidth + 1, Len(s))

FormatNumber(number) == RJust(Str(number), PadWidth, "0")

\* str.lower() on the characters the model uses.
LowerChar(c) ==
    CASE c = "A" -> "a"
      [] c = "B" -> "b"
      [] OTHER -> c

Lower(s) == [k \in 1..Len(s) |-> LowerChar(s[k])]

\* str.replace(old, new) for one-character old and new: every occurrence.
Replace(s, old, new) == [k \in 1..Len(s) |-> IF s[k] = old THEN new ELSE s[k]]

\* Lines 39-41: the file name of one example record.
Filename(example) ==
    LET number == example["example"]
        section == Replace(Lower(example["section"]), " ", "_")
    IN FormatNumber(number) \o <<"-">> \o section \o <<".", "m", "d">>

\* fnmatch of a name against a glob pattern whose only wildcard is '*'.
RECURSIVE FnMatchPrefix(_, _)
FnMatchPrefix(name, pattern) ==
    IF pattern = <<>> THEN TRUE
    ELSE IF Head(pattern) = "*"
         THEN \E k \in 0..Len(name) :
                  FnMatchPrefix(SubSeq(name, k + 1, Len(name)), Tail(pattern))
         ELSE /\ name # <<>>
              /\ Head(name) = Head(pattern)
              /\ FnMatchPrefix(Tail(name), Tail(pattern))

RECURSIVE FnMatch(_, _)
FnMatch(name, pattern) ==
    IF pattern = <<>> THEN name = <<>>
    ELSE IF Head(pattern) = "*"
         THEN \E k \in 0..Len(name) :
                  FnMatch(SubSeq(name, k + 1, Len(name)), Tail(pattern))
         ELSE /\ name # <<>>
              /\ Head(name) = Head(pattern)
              /\ FnMatch(Tail(name), Tail(pattern))

\* The patterns of the three cleanup loops, in program order.
PatternsMdOnly ==
    << <<"*", ".", "m", "d">> >>

Patterns ==
    << <<"*", ".", "m", "d">>,
       <<"*", ".", "e", "x", "p", "e", "c", "t", "e", "d">>,
       <<"*", ".", "a", "c", "t", "u", "a", "l">> >>

\* os.linesep of the platform the script runs on (POSIX).
LineSepWindows == <<13, 10>>

LineSep == <<10>>

\* Text-mode newline translation (newline=None): '\n' becomes os.linesep.
RECURSIVE TranslateNewlines(_)
TranslateNewlines(text) ==
    IF text = <<>> THEN <<>>
    ELSE (IF Head(text) = 10 THEN LineSep ELSE <<Head(text)>>)
         \o TranslateNewlines(Tail(text))

IsSurrogate(cp) == cp >= 55296 /\ cp <= 57343

\* encoding='utf-8', errors='strict': a lone surrogate cannot be encoded.
Encodable(text) == \A k \in 1..Len(text) : ~IsSurrogate(text[k])

Utf8Char(cp) ==
    IF cp < 128 THEN <<cp>>
    ELSE IF cp < 2048 THEN <<192 + (cp \div 64), 128 + (cp % 64)>>
    ELSE <<224 + (cp \div 4096), 128 + ((cp \div 64) % 64), 128 + (cp % 64)>>

RECURSIVE Utf8Encode(_)
Utf8Encode(text) ==
    IF text = <<>> THEN <<>> ELSE Utf8Char(Head(text)) \o Utf8Encode(Tail(text))

\* The bytes write_text(data, encoding='utf-8') puts in the file.
WrittenBytesLatin1(data) == TranslateNewlines(data)

WrittenBytes(data) == Utf8Encode(TranslateNewlines(data))

(* ------------------------------------------------------------ the inputs *)

ScriptName == <<"u", "p", "d", "a", "t", "e", ".", "p", "y">>
SubDirName == <<"s", "u", "b">>
StaleMd == <<"o", ".", "m", "d">>
CoincidingMd == <<"0", "0", "1", "-", "a", "_", "b", ".", "m", "d">>
StaleExpected == <<"o", ".", "e", "x", "p", "e", "c", "t", "e", "d">>
StaleActual == <<"o", ".", "a", "c", "t", "u", "a", "l">>
NearMiss == <<"o", ".", "m", "d", "x">>
DirNamedMd == <<"d", ".", "m", "d">>

File(bytes) == [kind |-> "file", data |-> bytes]
Directory(children) == [kind |-> "dir", data |-> children]

OldBytes == <<111>>

\* Entries the directory always has: the script itself, a file no pattern
\* matches and a subdirectory that holds a fixture-like file.
FixedEntries == {ScriptName, NearMiss, SubDirName}

OptionalEntries ==
    {StaleMd, CoincidingMd, StaleExpected, StaleActual, DirNamedMd}

EntryOf(name) ==
    IF name = SubDirName THEN Directory(<<StaleMd>>)
    ELSE IF name = DirNamedMd THEN Directory(<<>>)
    ELSE IF name = ScriptName THEN File(<<35, 33>>)
    ELSE File(OldBytes)

InitialDirs ==
    {[n \in FixedEntries \cup S |-> EntryOf(n)] : S \in SUBSET OptionalEntries}

SectionUpper == <<"A", " ", "b">>
SectionLower == <<"a", "_", "b">>

Examples ==
    { [example |-> 1, section |-> SectionUpper, markdown |-> <<120>>],
      [example |-> 1, section |-> SectionLower, markdown |-> <<233, 10>>],
      [example |-> 1042, section |-> SectionUpper, markdown |-> <<120>>],
      [example |-> 1042, section |-> SectionUpper, markdown |-> <<120, 55296>>],
      [example |-> 7, section |-> SectionUpper] }

RECURSIVE SeqsUpTo(_, _)
SeqsUpTo(S, n) ==
    IF n = 0 THEN {<<>>}
    ELSE LET shorter == SeqsUpTo(S, n - 1)
         IN shorter \cup {Append(s, x) : s \in {t \in shorter : Len(t) = n - 1}, x \in S}

\* A payload: text that is not JSON at all, or a JSON array of records.
NotJson == [json |-> FALSE, value |-> <<>>]
Json(value) == [json |-> TRUE, value |-> value]

Payloads == {NotJson} \cup {Json(doc) : doc \in SeqsUpTo(Examples, MaxExamples)}

(* -------------------------------------------------------------- the state *)

VARIABLES
    dir,        \* DIR: entry name -> File(bytes) or Directory(children)
    remote,     \* the payload served at SPEC_URL
    pc,         \* position of main(): glob, unlink, urlopen, load, loop, done, failed
    pat,        \* which of the three cleanup loops is running
    pending,    \* entries the current glob listed and the loop has not reached
    examples,   \* the decoded document, None before json.load returns
    i,          \* index of the example the write loop is at
    err,        \* the exception that ended the run, "none" while there is none
    run,        \* number of the current invocation of main()
    dir0,       \* history: DIR when the current invocation started
    writes,     \* history: names passed to write_text calls that returned
    prevDir     \* history: DIR when the previous invocation returned, or None

vars ==
    <<dir, remote, pc, pat, pending, examples, i, err, run, dir0, writes, prevDir>>

\* A name that is not bound yet (None), or bound to a value.
None == [bound |-> FALSE, value |-> <<>>]
Some(value) == [bound |-> TRUE, value |-> value]

\* DIR.glob(pattern): the immediate entries whose name matches.
GlobAll(d, pattern) == DOMAIN d

Glob(d, pattern) == {n \in DOMAIN d : FnMatch(n, pattern)}

\* The directory without entry f (a successful unlink).
UnlinkedTruncating(d, f) == [n \in DOMAIN d |-> IF n = f THEN File(<<>>) ELSE d[n]]

Unlinked(d, f) == [n \in DOMAIN d \ {f} |-> d[n]]

\* The directory with file `name` holding `bytes` (created or overwritten).
WithFileExclusive(d, name, bytes) ==
    [n \in DOMAIN d \cup {name} |->
        IF n = name /\ n \notin DOMAIN d THEN File(bytes) ELSE d[n]]

WithFile(d, name, bytes) ==
    [n \in DOMAIN d \cup {name} |-> IF n = name THEN File(bytes) ELSE d[n]]

\* What urlopen(SPEC_URL) yields when the request succeeds.
ResponseStale == IF run = 1 THEN remote ELSE Json(<<>>)

Response == remote

Init ==
    /\ dir \in InitialDirs
    /\ remote \in Payloads
    /\ pc = "glob"
    /\ pat = 1
    /\ pending = {}
    /\ examples = None
    /\ i = 1
    /\ err = "none"
    /\ run = 1
    /\ dir0 = dir
    /\ writes = <<>>
    /\ prevDir = None

\* An exception propagates out of main(): nothing else runs.
RaiseSwallowed(e) ==
    /\ pc' = "done"
    /\ err' = e

Raise(e) ==
    /\ pc' = "failed"
    /\ err' = e

\* Lines 29, 31, 33: `for file in DIR.glob(pattern)` lists the directory.
StartGlob ==
    /\ pc = "glob"
    /\ pending' = Glob(dir, Patterns[pat])
    /\ pc' = "unlink"
    /\ UNCHANGED <<dir, remote, pat, examples, i, err, run, dir0, writes, prevDir>>

\* Lines 30, 32, 34: file.unlink() removes a regular file.
UnlinkOk ==
    /\ pc = "unlink"
    /\ \E f \in pending :
        /\ dir[f].kind = "file"
        /\ dir' = Unlinked(dir, f)
        /\ pending' = pending \ {f}
    /\ UNCHANGED <<remote, pc, pat, examples, i, err, run, dir0, writes, prevDir>>

\* file.unlink() raises: a directory (IsADirectoryError), or a file that
\* cannot be removed (PermissionError).
UnlinkFail ==
    /\ pc = "unlink"
    /\ pending # {}
    /\ Raise("unlink")
    /\ UNCHANGED <<dir, remote, pat, pending, examples, i, run, dir0, writes, prevDir>>

\* A cleanup loop is exhausted: the next loop starts, or line 36 is reached.
EndGlob ==
    /\ pc = "unlink"
    /\ pending = {}
    /\ IF pat < Len(Patterns)
       THEN pat' = pat + 1 /\ pc' = "glob"
       ELSE pat' = pat /\ pc' = "urlopen"
    /\ UNCHANGED <<dir, remote, pending, examples, i, err, run, dir0, writes, prevDir>>

\* Line 36: urlopen raises URLError or HTTPError.
UrlopenFail ==
    /\ pc = "urlopen"
    /\ Raise("urlopen")
    /\ UNCHANGED <<dir, remote, pat, pending, examples, i, run, dir0, writes, prevDir>>

\* Lines 36-37: json.load(source) on a payload that is not JSON.
JsonLoadFail ==
    /\ pc = "urlopen"
    /\ ~Response.json
    /\ Raise("json")
    /\ UNCHANGED <<dir, remote, pat, pending, examples, i, run, dir0, writes, prevDir>>

\* Lines 36-37: the payload is fetched and decoded.
JsonLoadOk ==
    /\ pc = "urlopen"
    /\ Response.json
    /\ examples' = Some(Response.value)
    /\ i' = 1
    /\ pc' = "loop"
    /\ UNCHANGED <<dir, remote, pat, pending, err, run, dir0, writes, prevDir>>

\* The fields the loop body subscripts, in lines 39, 40 and 42.
Keys == {"example", "section", "markdown"}

\* record[key]: the value, or None where Python raises KeyError.
SubscriptOrDefault(record, key) ==
    IF key \in DOMAIN record THEN Some(record[key]) ELSE Some(<<>>)

Subscript(record, key) ==
    IF key \in DOMAIN record THEN Some(record[key]) ELSE None

\* The loop body's subscripts all succeed on this record.
SubscriptsOk(record) == \A key \in Keys : Subscript(record, key).bound

\* The data line 42 passes to write_text.
Markdown(record) == Subscript(record, "markdown").value

\* Lines 39-42: a subscript of the record raises KeyError before write_text
\* is called.
LoopKeyError ==
    /\ pc = "loop"
    /\ i <= Len(examples.value)
    /\ ~SubscriptsOk(examples.value[i])
    /\ Raise("key")
    /\ UNCHANGED <<dir, remote, pat, pending, examples, i, run, dir0, writes, prevDir>>

\* Lines 39-42: one iteration of the write loop.
WriteOk ==
    /\ pc = "loop"
    /\ i <= Len(examples.value)
    /\ SubscriptsOk(examples.value[i])
    /\ Encodable(Markdown(examples.value[i]))
    /\ dir' = WithFile(dir, Filename(examples.value[i]), WrittenBytes(Markdown(examples.value[i])))
    /\ writes' = Append(writes, Filename(examples.value[i]))
    /\ i' = i + 1
    /\ UNCHANGED <<remote, pc, pat, pending, examples, err, run, dir0, prevDir>>

\* Line 42: write_text opened (and so truncated) the file and the encoder
\* raised UnicodeEncodeError on the data.
WriteEncodeFail ==
    /\ pc = "loop"
    /\ i <= Len(examples.value)
    /\ SubscriptsOk(examples.value[i])
    /\ ~Encodable(Markdown(examples.value[i]))
    /\ dir' = WithFile(dir, Filename(examples.value[i]), <<>>)
    /\ Raise("encode")
    /\ UNCHANGED <<remote, pat, pending, examples, i, run, dir0, writes, prevDir>>

\* Line 42: write_text raises OSError, either from open() (nothing changes)
\* or from the write (the file is left truncated, with part of the data).
WriteOSFail ==
    /\ pc = "loop"
    /\ i <= Len(examples.value)
    /\ SubscriptsOk(examples.value[i])
    /\ Encodable(Markdown(examples.value[i]))
    /\ \/ dir' = dir
       \/ \E k \in 0..(Len(WrittenBytes(Markdown(examples.value[i]))) - 1) :
              dir' = WithFile(dir, Filename(examples.value[i]),
                              SubSeq(WrittenBytes(Markdown(examples.value[i])), 1, k))
    /\ Raise("oserror")
    /\ UNCHANGED <<remote, pat, pending, examples, i, run, dir0, writes, prevDir>>

\* The write loop is exhausted and main() returns.
Return ==
    /\ pc = "loop"
    /\ i > Len(examples.value)
    /\ pc' = "done"
    /\ UNCHANGED <<dir, remote, pat, pending, examples, i, err, run, dir0, writes, prevDir>>

\* The script is invoked again on the directory the last run left.
Rerun ==
    /\ pc \in {"done", "failed"}
    /\ run < MaxRuns
    /\ run' = run + 1
    /\ prevDir' = IF pc = "done" THEN Some(dir) ELSE None
    /\ dir0' = dir
    /\ pc' = "glob"
    /\ pat' = 1
    /\ pending' = {}
    /\ examples' = None
    /\ i' = 1
    /\ err' = "none"
    /\ writes' = <<>>
    /\ UNCHANGED <<dir, remote>>

Next ==
    \/ StartGlob
    \/ UnlinkOk
    \/ UnlinkFail
    \/ EndGlob
    \/ UrlopenFail
    \/ JsonLoadFail
    \/ JsonLoadOk
    \/ LoopKeyError
    \/ WriteOk
    \/ WriteEncodeFail
    \/ WriteOSFail
    \/ Return
    \/ Rerun

Spec == Init /\ [][Next]_vars

(* ------------------------------------------- vocabulary of the properties *)

HasSuffix(name, suffix) ==
    /\ Len(name) >= Len(suffix)
    /\ SubSeq(name, Len(name) - Len(suffix) + 1, Len(name)) = suffix

\* A name that one of *.md, *.expected, *.actual matches.
IsFixtureName(name) ==
    \/ HasSuffix(name, <<".", "m", "d">>)
    \/ HasSuffix(name, <<".", "e", "x", "p", "e", "c", "t", "e", "d">>)
    \/ HasSuffix(name, <<".", "a", "c", "t", "u", "a", "l">>)

FixtureNames(d) == {n \in DOMAIN d : IsFixtureName(n)}

\* The directory d after a cleanup that removed every fixture artifact.
PostCleanup(d) == [n \in DOMAIN d \ FixtureNames(d) |-> d[n]]

\* The text a reader gets back from UTF-8 bytes, with no newline translation;
\* a sequence cut short reads as U+FFFD.
RECURSIVE Utf8Decode(_)
Utf8Decode(bytes) ==
    LET need == IF bytes[1] < 128 THEN 1 ELSE IF bytes[1] < 224 THEN 2 ELSE 3
        rest == SubSeq(bytes, need + 1, Len(bytes))
    IN IF bytes = <<>> THEN <<>>
       ELSE IF Len(bytes) < need THEN <<65533>>
       ELSE IF need = 1 THEN <<bytes[1]>> \o Utf8Decode(rest)
       ELSE IF need = 2
            THEN <<(bytes[1] - 192) * 64 + (bytes[2] - 128)>> \o Utf8Decode(rest)
       ELSE <<(bytes[1] - 224) * 4096 + (bytes[2] - 128) * 64 + (bytes[3] - 128)>>
            \o Utf8Decode(rest)

\* The document of the current run, once decoded.
Doc == examples.value

Complete(e) == {"example", "section", "markdown"} \subseteq DOMAIN e

\* filename(e) for every example of a document whose records are all complete.
FilenamesOf(doc) == {Filename(doc[k]) : k \in 1..Len(doc)}

\* Example k is the last of the first n examples to have its file name.
LastWriter(doc, k, n) ==
    \A j \in (k + 1)..n : Filename(doc[j]) # Filename(doc[k])

\* File `name` of the directory holds exactly `text`.
Holds(d, name, text) ==
    /\ name \in DOMAIN d
    /\ d[name].kind = "file"
    /\ Utf8Decode(d[name].data) = text

Succeeded == pc = "done" /\ err = "none"

StaleOfEveryKind(d) == {StaleMd, StaleExpected, StaleActual} \subseteq DOMAIN d

(* ----------------------------------------------------------------- claims *)

\* C1 (as stated): after a successful run the set of files in the fixture
\* directory exactly equals { filename(e) : e in the decoded examples }.
C1_DirectoryIsExactlyTheFilenames ==
    Succeeded => DOMAIN dir = FilenamesOf(Doc)

\* C1 (amended): after a successful run the entries of the fixture directory
\* that match a fixture pattern are exactly { filename(e) }, each a regular
\* file, and the entries that match no pattern (update.py among them) are
\* the ones the directory had before the run.
C1_FixtureSetIsExactlyTheFilenames ==
    Succeeded =>
        /\ FixtureNames(dir) = FilenamesOf(Doc)
        /\ \A n \in FixtureNames(dir) : dir[n].kind = "file"
        /\ DOMAIN dir \ FixtureNames(dir) = DOMAIN dir0 \ FixtureNames(dir0)

C1_Witness ==
    /\ Succeeded
    /\ StaleOfEveryKind(dir0)
    /\ CoincidingMd \in DOMAIN dir0
    /\ Cardinality(FilenamesOf(Doc)) >= 2

C4_FetchFailureLeavesPostCleanup ==
    (pc = "failed" /\ err = "urlopen") =>
        /\ pat = Len(Patterns)
        /\ pending = {}
        /\ examples = None
        /\ writes = <<>>
        /\ FixtureNames(dir) = {}
        /\ dir = PostCleanup(dir0)

C4_Witness ==
    /\ pc = "failed"
    /\ err = "urlopen"
    /\ StaleOfEveryKind(dir0)
    /\ remote.json
    /\ Len(remote.value) >= 1

\* C5: a second successful run against the same document leaves the
\* directory (file set and every content) as the first successful run did.
C5_SecondRunSameDirectory ==
    (Succeeded /\ prevDir.bound) => dir = prevDir.value

C5_Witness ==
    /\ Succeeded
    /\ prevDir.bound
    /\ run = 2
    /\ Cardinality(FilenamesOf(Doc)) >= 2

IsDigit(c) == \E d \in 1..10 : DigitChars[d] = c

DigitValue(c) == (CHOOSE d \in 1..10 : DigitChars[d] = c) - 1

RECURSIVE ParseDecimal(_)
ParseDecimal(s) ==
    IF s = <<>> THEN 0
    ELSE 10 * ParseDecimal(SubSeq(s, 1, Len(s) - 1)) + DigitValue(s[Len(s)])

UpperLetters == <<"A", "B">>
LowerLetters == <<"a", "b">>

\* c is what a character src of a section label becomes in a file name.
NormalizedFrom(c, src) ==
    IF src = " " THEN c = "_"
    ELSE IF \E u \in 1..Len(UpperLetters) : UpperLetters[u] = src
         THEN \E u \in 1..Len(UpperLetters) :
                  UpperLetters[u] = src /\ LowerLetters[u] = c
         ELSE c = src

\* name is: number in decimal, zero-padded to at least PadWidth digits and
\* never truncated, '-', the normalized section, '.md'.
WellFormedName(name, number, section) ==
    \E w \in 1..Len(name) :
        /\ \A k \in 1..w : IsDigit(name[k])
        /\ w >= PadWidth
        /\ w > PadWidth => name[1] # "0"
        /\ ParseDecimal(SubSeq(name, 1, w)) = number
        /\ Len(name) = w + 1 + Len(section) + 3
        /\ name[w + 1] = "-"
        /\ \A k \in 1..Len(section) : NormalizedFrom(name[w + 1 + k], section[k])
        /\ SubSeq(name, Len(name) - 2, Len(name)) = <<".", "m", "d">>

\* C6: the file name passed to every write is determined by (number,
\* section): the zero-padded, untruncated decimal number, '-', the section
\* lower-cased with spaces as underscores, '.md'; two writes get the same
\* name only for the same number, and the same (number, section) gets the
\* same name.
C6_FilenameShape ==
    examples.bound =>
        /\ Len(writes) <= Len(Doc)
        /\ \A k \in 1..Len(writes) :
               WellFormedName(writes[k], Doc[k]["example"], Doc[k]["section"])
        /\ \A j, k \in 1..Len(writes) :
               /\ writes[j] = writes[k] => Doc[j]["example"] = Doc[k]["example"]
               /\ (Doc[j]["example"] = Doc[k]["example"]
                      /\ Doc[j]["section"] = Doc[k]["section"])
                   => writes[j] = writes[k]

C6_Witness ==
    /\ Succeeded
    /\ \E j, k \in 1..Len(writes) :
           /\ Doc[j]["example"] = 1
           /\ Doc[k]["example"] = 1042
           /\ Len(writes[k]) = Len(writes[j]) + 1

\* C7: a fixture artifact that was in the directory before a successful run
\* is absent after it unless its name is a newly generated file name.
C7_StaleFixturesAreGone ==
    Succeeded =>
        \A n \in FixtureNames(dir0) : n \in DOMAIN dir => n \in FilenamesOf(Doc)

C7_Witness ==
    /\ Succeeded
    /\ StaleOfEveryKind(dir0)
    /\ CoincidingMd \in DOMAIN dir0
    /\ CoincidingMd \in DOMAIN dir
    /\ StaleMd \notin DOMAIN dir

\* C8: one write per example, in document order, and a file name collision
\* is never detected: the run succeeds and the file holds the markdown of the
\* last example of the document that has that name.
C8_DocumentOrderLastWriteWins ==
    /\ examples.bound =>
           writes = [k \in 1..Len(writes) |-> Filename(Doc[k])]
    /\ pc = "loop" => Len(writes) = i - 1
    /\ Succeeded =>
           /\ Len(writes) = Len(Doc)
           /\ \A j, k \in 1..Len(Doc) :
                  (j <= k /\ Filename(Doc[j]) = Filename(Doc[k])
                         /\ LastWriter(Doc, k, Len(Doc)))
                  => Holds(dir, Filename(Doc[j]), Doc[k]["markdown"])

C8_Witness ==
    /\ Succeeded
    /\ \E j, k \in 1..Len(Doc) :
           /\ j < k
           /\ Filename(Doc[j]) = Filename(Doc[k])
           /\ Doc[j]["markdown"] # Doc[k]["markdown"]
           /\ Holds(dir, Filename(Doc[j]), Doc[k]["markdown"])

IOErrors == {"unlink", "encode", "oserror"}

\* What the cleanup had removed when an unlink raised: the matches of the
\* patterns before the current one, and those of the current one that the
\* loop had passed.
RemovedSoFar ==
    {n \in DOMAIN dir0 :
        \/ \E p \in 1..(pat - 1) : FnMatch(n, Patterns[p])
        \/ FnMatch(n, Patterns[pat]) /\ n \notin pending}

\* What holds of every failed delete or write: the run is not reported as
\* successful, a failed delete precedes every decode and write, a failed
\* write is that of example i, no later example is written, and what the
\* cleanup removed is not restored.
C9_AbortedThere ==
    /\ err # "none" => pc = "failed"
    /\ (pc = "failed" /\ err = "unlink") =>
           /\ writes = <<>>
           /\ examples = None
           /\ pending # {}
           /\ dir = [n \in DOMAIN dir0 \ RemovedSoFar |-> dir0[n]]
    /\ (pc = "failed" /\ err \in {"encode", "oserror"}) =>
           /\ Len(writes) = i - 1
           /\ FixtureNames(dir) \subseteq FilenamesOf(SubSeq(Doc, 1, i))
           /\ DOMAIN dir \ FixtureNames(dir) = DOMAIN dir0 \ FixtureNames(dir0)
           /\ \A k \in (i + 1)..Len(Doc) :
                  (Complete(Doc[k]) /\ Filename(Doc[k]) \notin FilenamesOf(SubSeq(Doc, 1, i)))
                  => Filename(Doc[k]) \notin DOMAIN dir

\* C9 (as stated): when a delete or write fails the run aborts there, no
\* later example is written, the run is not reported as successful, and the
\* deletions and writes already performed are left as they are.
C9_PerformedWritesAreIntact ==
    /\ C9_AbortedThere
    /\ (pc = "failed" /\ err \in IOErrors) =>
           \A k \in 1..Len(writes) :
               LastWriter(Doc, k, Len(writes)) =>
                   Holds(dir, writes[k], Doc[k]["markdown"])

\* The same, but for the target of the failing write.
C9_StateAtFailure ==
    /\ C9_AbortedThere
    /\ (pc = "failed" /\ err \in {"encode", "oserror"}) =>
           \A k \in 1..Len(writes) :
               (LastWriter(Doc, k, Len(writes)) /\ writes[k] # Filename(Doc[i]))
               => Holds(dir, writes[k], Doc[k]["markdown"])

\* Once the run has failed it performs no step: the directory and the
\* record of the run stay as they are until the script is invoked again.
C9_NoStepAfterFailure ==
    pc = "failed" =>
        \/ run' = run + 1
        \/ UNCHANGED <<dir, pc, err, writes, examples, i, pending, pat>>

\* C9 (amended): when a delete or write fails the run aborts there with an
\* error, performs no later step and is never reported as successful; no
\* example after the failing one is written; the deletions and writes
\* already performed are left as they are, except that the failing write may
\* leave its own target truncated, which loses what an earlier example with
\* the same file name had written.
C9_AbortsWithoutRollback ==
    []C9_StateAtFailure /\ [][C9_NoStepAfterFailure]_vars

C9_Witness ==
    /\ pc = "failed"
    /\ err = "oserror"
    /\ i = 2
    /\ Len(Doc) = 3
    /\ StaleOfEveryKind(dir0)
    /\ Holds(dir, writes[1], Doc[1]["markdown"])
    /\ Filename(Doc[2]) # writes[1]
    /\ Filename(Doc[2]) \in DOMAIN dir

InCleanup == pc \in {"glob", "unlink", "urlopen"} \/ (pc = "failed" /\ err = "unlink")

\* C10: the reset removes exactly the immediate entries whose name matches
\* *.md, *.expected or *.actual and leaves every other entry (update.py,
\* subdirectories and what they hold) unchanged; when nothing matches it
\* changes nothing and does not fail.
C10_ResetRemovesOnlyFixtures ==
    /\ InCleanup =>
           /\ DOMAIN dir \subseteq DOMAIN dir0
           /\ \A n \in DOMAIN dir : dir[n] = dir0[n]
           /\ \A n \in DOMAIN dir0 \ FixtureNames(dir0) : n \in DOMAIN dir
    /\ pc = "urlopen" => dir = PostCleanup(dir0)
    /\ (InCleanup /\ FixtureNames(dir0) = {}) => (dir = dir0 /\ pc # "failed")

C10_Witness ==
    /\ pc = "urlopen"
    /\ StaleOfEveryKind(dir0)
    /\ NearMiss \in DOMAIN dir
    /\ ScriptName \in DOMAIN dir
    /\ dir[SubDirName] = Directory(<<StaleMd>>)

====
